---- MODULE Spec2Model ----
(***************************************************************************)
(* Model of the rust_req NIF (native/rust_req_nif/src/lib.rs): the two     *)
(* client builders, the four single-call operations http_get, http_post,   *)
(* http_get_async, http_post_async and the concurrent http_get_batch.      *)
(*                                                                         *)
(* One behaviour is one NIF call.  The network (server answers, transport  *)
(* errors) and the scheduler (task interleaving, runtime creation, task    *)
(* aborts) are nondeterministic.                                           *)
(***************************************************************************)
EXTENDS Integers, Sequences, FiniteSets, TLC

(* ------------------------------ bounds -------------------------------- *)

\* longest url list handed to http_get_batch
MaxUrls == 2
\* longest chain of redirects a server answers with
MaxChain == 1

(* ----------------------------- constants ------------------------------ *)

\* Option::None of the two integer options
None == -1
\* options.timeout_ms.unwrap_or(30000)
DefaultTimeoutMs == 30000
\* redirect policy of a reqwest builder on which .redirect() was not called
ReqwestDefaultRedirects == 10

Modes == {"get", "post", "get_async", "post_async", "batch"}
BlockingModes == {"get", "post"}
AsyncModes == {"get_async", "post_async", "batch"}
UrlKinds == {"valid", "malformed"}
Statuses == {200, 302, 404, 500}

\* struct HttpOptions: every field optional
HttpOptions ==
    [timeout_ms : {None, 100},
     proxy : {"none", "valid", "invalid"},
     follow_redirects : {"none", "true", "false"},
     max_redirects : {None, 0, 1}]

\* the options http_get_batch is called with here: one option value for each
\* client builder outcome (no proxy or an invalid one; redirect policy default,
\* none, or limited to each max_redirects); the single calls take all of HttpOptions
BatchOptions ==
    {o \in HttpOptions :
        /\ o.timeout_ms = None
        /\ o.proxy # "valid"
        /\ (o.follow_redirects = "true" \/ o.max_redirects = None)}

VARIABLES
    mode,       \* which NIF is called
    urls,       \* the url argument(s), each well-formed or malformed
    options,    \* the HttpOptions argument
    pc,         \* position of the calling thread
    client,     \* the client built for the call
    exch,       \* per url: the state of its HTTP exchange (batch: its task)
    results,    \* http_get_batch: the results vector
    overtaken,  \* some exchange finished before one of a lower index
    ret         \* the value the NIF returns

vars == <<mode, urls, options, pc, client, exch, results, overtaken, ret>>

(* --------------------------- client builders -------------------------- *)

NoClient == [timeout |-> 0, proxy |-> "none", redirect |-> [kind |-> "unset", max |-> 0]]

unwrap_or(o, d) == IF o = None THEN d ELSE o

PolicyNone == [kind |-> "none", max |-> 0]
PolicyLimited(m) == [kind |-> "limited", max |-> m]
PolicyDefault == PolicyLimited(ReqwestDefaultRedirects)

\* build_client with the follow test inverted: redirects stay on when switched off
build_client_follows(o) ==
    LET timeout == unwrap_or(o.timeout_ms, DefaultTimeoutMs)
        proxy_err == o.proxy # "none" /\ o.proxy = "invalid"
        redirect ==
            IF o.follow_redirects # "none"
            THEN IF o.follow_redirects = "true"
                 THEN PolicyNone
                 ELSE IF o.max_redirects # None
                      THEN PolicyLimited(o.max_redirects)
                      ELSE PolicyDefault
            ELSE PolicyDefault
    IN  IF proxy_err
        THEN [ok |-> FALSE, client |-> NoClient]
        ELSE [ok |-> TRUE,
              client |-> [timeout |-> timeout, proxy |-> o.proxy, redirect |-> redirect]]

\* fn build_client: Result<reqwest::blocking::Client, _>
build_client(o) ==
    LET timeout == unwrap_or(o.timeout_ms, DefaultTimeoutMs)
        \* reqwest::Proxy::all(proxy_url)? returns the error
        proxy_err == o.proxy # "none" /\ o.proxy = "invalid"
        redirect ==
            IF o.follow_redirects # "none"
            THEN IF o.follow_redirects = "false"
                 THEN PolicyNone
                 ELSE IF o.max_redirects # None
                      THEN PolicyLimited(o.max_redirects)
                      ELSE PolicyDefault
            ELSE PolicyDefault
    IN  IF proxy_err
        THEN [ok |-> FALSE, client |-> NoClient]
        ELSE [ok |-> TRUE,
              client |-> [timeout |-> timeout, proxy |-> o.proxy, redirect |-> redirect]]

\* build_async_client that drops a proxy it cannot parse instead of failing
build_async_client_lenient(o) ==
    LET timeout == unwrap_or(o.timeout_ms, DefaultTimeoutMs)
        redirect ==
            IF o.follow_redirects # "none"
            THEN IF o.follow_redirects = "false"
                 THEN PolicyNone
                 ELSE IF o.max_redirects # None
                      THEN PolicyLimited(o.max_redirects)
                      ELSE PolicyDefault
            ELSE PolicyDefault
    IN  [ok |-> TRUE,
         client |-> [timeout |-> timeout,
                     proxy |-> IF o.proxy = "invalid" THEN "none" ELSE o.proxy,
                     redirect |-> redirect]]

\* build_async_client that never sets the redirect limit
build_async_client_nolimit(o) ==
    LET timeout == unwrap_or(o.timeout_ms, DefaultTimeoutMs)
        proxy_err == o.proxy # "none" /\ o.proxy = "invalid"
        redirect ==
            IF o.follow_redirects # "none"
            THEN IF o.follow_redirects = "false"
                 THEN PolicyNone
                 ELSE PolicyDefault
            ELSE PolicyDefault
    IN  IF proxy_err
        THEN [ok |-> FALSE, client |-> NoClient]
        ELSE [ok |-> TRUE,
              client |-> [timeout |-> timeout, proxy |-> o.proxy, redirect |-> redirect]]

\* fn build_async_client: Result<reqwest::Client, _>
build_async_client(o) ==
    LET timeout == unwrap_or(o.timeout_ms, DefaultTimeoutMs)
        \* reqwest::Proxy::all(proxy_url)? returns the error
        proxy_err == o.proxy # "none" /\ o.proxy = "invalid"
        redirect ==
            IF o.follow_redirects # "none"
            THEN IF o.follow_redirects = "false"
                 THEN PolicyNone
                 ELSE IF o.max_redirects # None
                      THEN PolicyLimited(o.max_redirects)
                      ELSE PolicyDefault
            ELSE PolicyDefault
    IN  IF proxy_err
        THEN [ok |-> FALSE, client |-> NoClient]
        ELSE [ok |-> TRUE,
              client |-> [timeout |-> timeout, proxy |-> o.proxy, redirect |-> redirect]]

(* ------------------------------ results ------------------------------- *)

NoRet == [tag |-> "none", status |-> 0, kind |-> "", detail |-> ""]
\* a response turned into an error when its status is 4xx or 5xx
OkResponseForStatus(s) ==
    IF s >= 400
    THEN [tag |-> "error", status |-> 0, kind |-> "term", detail |-> "Request error"]
    ELSE [tag |-> "ok", status |-> s, kind |-> "", detail |-> ""]

\* Ok(HttpResponse {status, ..}), encoded {:ok, {status, headers, body}}
OkResponse(s) == [tag |-> "ok", status |-> s, kind |-> "", detail |-> ""]
\* Err(Error::Atom(a))
ErrAtom(a) == [tag |-> "error", status |-> 0, kind |-> a, detail |-> ""]
\* Err(Error::Term(Box::new(format!("<d>: {}", e))))
ErrTerm(d) == [tag |-> "error", status |-> 0, kind |-> "term", detail |-> d]
\* Err(String) of a batch task, encoded {:error, "<d>: ..."}
ErrString(d) == [tag |-> "error", status |-> 0, kind |-> "string", detail |-> d]
\* Ok(results.encode(env)) of http_get_batch
OkList == [tag |-> "list", status |-> 0, kind |-> "", detail |-> ""]

\* a reqwest::Error: where it arose and what is_timeout() / is_connect() say
NoErr == [phase |-> "none", is_timeout |-> FALSE, is_connect |-> FALSE]
BuilderErr == [phase |-> "builder", is_timeout |-> FALSE, is_connect |-> FALSE]
RedirectErr == [phase |-> "redirect", is_timeout |-> FALSE, is_connect |-> FALSE]
JoinErr == [phase |-> "join", is_timeout |-> FALSE, is_connect |-> FALSE]
SendErrs == [phase : {"send"}, is_timeout : BOOLEAN, is_connect : BOOLEAN]
BodyErrs == [phase : {"body"}, is_timeout : BOOLEAN, is_connect : {FALSE}]

\* http_get: .send().map_err(..)
http_get_send_err(e) ==
    IF e.is_timeout THEN ErrAtom("timeout")
    ELSE IF e.is_connect THEN ErrAtom("network_error")
    ELSE ErrTerm("Request error")

\* http_get: response.text().map_err(..)
http_get_body_err(e) == ErrTerm("Body error")

\* http_post: .send().map_err(..)
http_post_send_err(e) ==
    IF e.is_timeout THEN ErrAtom("timeout")
    ELSE IF e.is_connect THEN ErrAtom("network_error")
    ELSE ErrTerm("Request error")

\* http_post: response.text().map_err(..)
http_post_body_err(e) == ErrTerm("Body error")

\* http_get_async: .send().await.map_err(..)
http_get_async_send_err(e) ==
    IF e.is_timeout THEN ErrAtom("timeout")
    ELSE IF e.is_connect THEN ErrAtom("network_error")
    ELSE ErrTerm("Request error")

\* http_get_async: response.text().await.map_err(..)
http_get_async_body_err(e) == ErrTerm("Body error")

\* http_post_async: .send().await.map_err(..)
http_post_async_send_err(e) ==
    IF e.is_timeout THEN ErrAtom("timeout")
    ELSE IF e.is_connect THEN ErrAtom("network_error")
    ELSE ErrTerm("Request error")

\* http_post_async: response.text().await.map_err(..)
http_post_async_body_err(e) == ErrTerm("Body error")

\* http_get_batch task: Err(e) => Err(format!("Request error: {}", e))
batch_send_err(e) == ErrString("Request error")

\* http_get_batch task: Err(e) => Err(format!("Body error: {}", e))
batch_body_err(e) == ErrString("Body error")

\* http_get_batch: Err(e) => (error, format!("Task error: {}", e))
batch_join_err == ErrString("Task error")

SendErrOf(m, e) ==
    CASE m = "get" -> http_get_send_err(e)
      [] m = "post" -> http_post_send_err(e)
      [] m = "get_async" -> http_get_async_send_err(e)
      [] m = "post_async" -> http_post_async_send_err(e)
      [] m = "batch" -> batch_send_err(e)

BodyErrOf(m, e) ==
    CASE m = "get" -> http_get_body_err(e)
      [] m = "post" -> http_post_body_err(e)
      [] m = "get_async" -> http_get_async_body_err(e)
      [] m = "post_async" -> http_post_async_body_err(e)
      [] m = "batch" -> batch_body_err(e)

(* ------------------------------ exchange ------------------------------ *)

\* st: "none" (not started), "sending", "body", "finished"
\* sent: requests put on the wire; resp: status of the response in hand;
\* err: the failure of the exchange; out: what the exchange returned
NewExch == [st |-> "none", sent |-> 0, resp |-> 0, err |-> NoErr, out |-> NoRet]

N == Len(urls)

IsRedirect(s) == s \in 300..399

\* the statuses a server may answer request number sent+1 with
ServerStatuses(sent) == IF sent < MaxChain THEN Statuses ELSE {s \in Statuses : ~IsRedirect(s)}

\* redirect::Policy::check: Follow or Error(TooManyRedirects); followed = hops so far
PolicyFollows(p, followed) == p.kind = "limited" /\ followed < p.max
PolicyErrors(p, followed) == p.kind = "limited" /\ followed >= p.max

\* An exchange that ends: a single call returns from the NIF, a task completes
Finish(i, sent, resp, e, out) ==
    /\ exch' = [exch EXCEPT ![i] = [st |-> "finished", sent |-> sent, resp |-> resp,
                                    err |-> e, out |-> out]]
    /\ overtaken' = (overtaken \/ \E j \in 1..(i - 1) : exch[j].st # "finished")
    /\ IF mode = "batch"
       THEN UNCHANGED <<pc, ret>>
       ELSE pc' = "done" /\ ret' = out

(* ------------------------------ actions ------------------------------- *)

Seqs(S, n) == UNION {[1..k -> S] : k \in 0..n}

Init ==
    /\ mode \in Modes
    /\ options \in IF mode = "batch" THEN BatchOptions ELSE HttpOptions
    /\ urls \in IF mode = "batch" THEN Seqs(UrlKinds, MaxUrls) ELSE [1..1 -> UrlKinds]
    /\ pc = "entry"
    /\ client = NoClient
    /\ exch = [i \in 1..Len(urls) |-> NewExch]
    /\ results = <<>>
    /\ overtaken = FALSE
    /\ ret = NoRet

\* tokio::runtime::Runtime::new().map_err(..)?
RuntimeNew ==
    /\ pc = "entry"
    /\ mode \in AsyncModes
    /\ \E started \in BOOLEAN :
          IF started
          THEN pc' = "build" /\ UNCHANGED ret
          ELSE pc' = "done" /\ ret' = ErrTerm("Runtime error")
    /\ UNCHANGED <<mode, urls, options, client, exch, results, overtaken>>

\* http_get / http_post: build_client(&options).map_err(..)?; the request is built
BuildBlocking ==
    /\ pc = "entry"
    /\ mode \in BlockingModes
    /\ LET b == build_client(options)
       IN  IF b.ok
           THEN /\ client' = b.client
                /\ pc' = "request"
                /\ exch' = [exch EXCEPT ![1].st = "sending"]
                /\ UNCHANGED ret
           ELSE /\ ret' = ErrTerm("Client error")
                /\ pc' = "done"
                /\ UNCHANGED <<client, exch>>
    /\ UNCHANGED <<mode, urls, options, results, overtaken>>

\* http_get_async / http_post_async / http_get_batch: build_async_client(&options)
BuildAsync ==
    /\ pc = "build"
    /\ mode \in AsyncModes
    /\ LET b == build_async_client(options)
       IN  IF b.ok
           THEN /\ client' = b.client
                /\ IF mode = "batch"
                   THEN pc' = "spawn" /\ UNCHANGED exch
                   ELSE pc' = "request" /\ exch' = [exch EXCEPT ![1].st = "sending"]
                /\ UNCHANGED ret
           ELSE /\ ret' = ErrTerm("Client error")
                /\ pc' = "done"
                /\ UNCHANGED <<client, exch>>
    /\ UNCHANGED <<mode, urls, options, results, overtaken>>

\* http_get_batch: urls.into_iter().map(|url| tokio::spawn(..)).collect()
SpawnTasks ==
    /\ pc = "spawn"
    /\ exch' = [i \in 1..N |-> [exch[i] EXCEPT !.st = "sending"]]
    /\ IF N = 0
       THEN pc' = "done" /\ ret' = OkList
       ELSE pc' = "gather" /\ UNCHANGED ret
    /\ UNCHANGED <<mode, urls, options, client, results, overtaken>>

\* request.send(): one request on the wire, or none when the url does not parse
Send(i) ==
    /\ exch[i].st = "sending"
    /\ LET x == exch[i]
           followed == x.sent
       IN  IF urls[i] = "malformed"
           THEN Finish(i, x.sent, 0, BuilderErr, SendErrOf(mode, BuilderErr))
           ELSE \/ \E e \in SendErrs : Finish(i, x.sent + 1, 0, e, SendErrOf(mode, e))
                \/ \E s \in ServerStatuses(x.sent) :
                      IF IsRedirect(s) /\ PolicyFollows(client.redirect, followed)
                      THEN /\ exch' = [exch EXCEPT ![i].sent = x.sent + 1]
                           /\ UNCHANGED <<pc, ret, overtaken>>
                      ELSE IF IsRedirect(s) /\ PolicyErrors(client.redirect, followed)
                      THEN Finish(i, x.sent + 1, 0, RedirectErr, SendErrOf(mode, RedirectErr))
                      ELSE /\ exch' = [exch EXCEPT ![i].sent = x.sent + 1,
                                                   ![i].resp = s, ![i].st = "body"]
                           /\ UNCHANGED <<pc, ret, overtaken>>
    /\ UNCHANGED <<mode, urls, options, client, results>>

\* response.text(): the body is read whole, or the read fails
ReadBody(i) ==
    /\ exch[i].st = "body"
    /\ LET x == exch[i]
       IN  \/ Finish(i, x.sent, x.resp, NoErr, OkResponse(x.resp))
           \/ \E e \in BodyErrs : Finish(i, x.sent, 0, e, BodyErrOf(mode, e))
    /\ UNCHANGED <<mode, urls, options, client, results>>

\* a spawned task panics or is cancelled: its JoinHandle yields Err(JoinError)
TaskAbort(i) ==
    /\ mode = "batch"
    /\ exch[i].st \in {"sending", "body"}
    /\ Finish(i, exch[i].sent, 0, JoinErr, NoRet)
    /\ UNCHANGED <<mode, urls, options, client, results>>

\* match task.await { Ok(Ok(response)) | Ok(Err(error_msg)) | Err(e) }
Encode(x) ==
    IF x.err = JoinErr THEN batch_join_err
    ELSE IF x.out.tag = "ok" THEN OkResponse(x.out.status)
    ELSE ErrString(x.out.detail)

\* the handles taken from the back of the vector
NextAwaitedFromBack == N - Len(results)

\* the index of the JoinHandle the gather loop awaits next
NextAwaited == Len(results) + 1

\* a gather loop that returns the first error it meets
AwaitFailFast ==
    /\ pc = "gather"
    /\ LET k == NextAwaited
       IN  /\ k <= N
           /\ exch[k].st = "finished"
           /\ IF Encode(exch[k]).tag = "error"
              THEN pc' = "done" /\ ret' = Encode(exch[k]) /\ UNCHANGED results
              ELSE /\ results' = Append(results, Encode(exch[k]))
                   /\ IF k = N
                      THEN pc' = "done" /\ ret' = OkList
                      ELSE UNCHANGED <<pc, ret>>
    /\ UNCHANGED <<mode, urls, options, client, exch, overtaken>>

\* a gather loop that polls each handle once and does not wait for it
AwaitNoWait ==
    /\ pc = "gather"
    /\ LET k == NextAwaited
       IN  /\ k <= N
           /\ results' = Append(results, IF exch[k].st = "finished"
                                         THEN Encode(exch[k]) ELSE batch_join_err)
           /\ IF k = N
              THEN pc' = "done" /\ ret' = OkList
              ELSE UNCHANGED <<pc, ret>>
    /\ UNCHANGED <<mode, urls, options, client, exch, overtaken>>

\* for task in tasks { match task.await {..} }; Ok(results.encode(env))
Await ==
    /\ pc = "gather"
    /\ LET k == NextAwaited
       IN  /\ k <= N
           /\ exch[k].st = "finished"
           /\ results' = Append(results, Encode(exch[k]))
           /\ IF k = N
              THEN pc' = "done" /\ ret' = OkList
              ELSE UNCHANGED <<pc, ret>>
    /\ UNCHANGED <<mode, urls, options, client, exch, overtaken>>

Next ==
    \/ RuntimeNew
    \/ BuildBlocking
    \/ BuildAsync
    \/ SpawnTasks
    \/ \E i \in 1..N : Send(i)
    \/ \E i \in 1..N : ReadBody(i)
    \/ \E i \in 1..N : TaskAbort(i)
    \/ Await

Spec == Init /\ [][Next]_vars

(* ------------------------------ claims -------------------------------- *)

SingleModes == {"get", "post", "get_async", "post_async"}
Finished(i) == exch[i].st = "finished"
Spawned == \E i \in 1..N : exch[i].st # "none"
BatchReturned == mode = "batch" /\ pc = "done" /\ ret.tag = "list"

\* what the exchange of url i came to, read off the transport and not off the code
DetailOf(e) ==
    CASE e.phase = "body" -> "Body error"
      [] e.phase = "join" -> "Task error"
      [] OTHER -> "Request error"

IsOutcomeOf(r, i) ==
    IF exch[i].err = NoErr
    THEN r.tag = "ok" /\ r.status = exch[i].resp
    ELSE r.tag = "error" /\ r.detail = DetailOf(exch[i].err)

\* C1: when http_get_batch returns its list, the list has one result per input url
\* and result i is the outcome of the request for url i, whatever order the tasks
\* finished in.
C1_BatchInputOrder ==
    BatchReturned =>
        /\ Len(results) = N
        /\ \A i \in 1..N : IsOutcomeOf(results[i], i)

\* C1 witness: a returned batch whose second task finished before its first, the
\* two with different outcomes.
C1_Witness ==
    /\ BatchReturned
    /\ N >= 2
    /\ overtaken
    /\ results[1] # results[2]

\* C2: once the tasks of a batch are spawned the call returns the list: a failed
\* item is an error value at its own position, and every item whose own exchange
\* succeeded is Success, whatever the other items did.
C2_BatchFailureIsolated ==
    (mode = "batch" /\ pc = "done" /\ Spawned) =>
        /\ ret.tag = "list"
        /\ Len(results) = N
        /\ \A i \in 1..N :
              /\ exch[i].err # NoErr => results[i].tag = "error"
              /\ exch[i].err = NoErr =>
                    results[i].tag = "ok" /\ results[i].status = exch[i].resp

\* C2 witness: a returned batch with a malformed url between items that succeeded
\* or, with two urls, beside one.
C2_Witness ==
    /\ BatchReturned
    /\ \E i, j \in 1..N :
          /\ urls[i] = "malformed" /\ results[i].detail = "Request error"
          /\ j > i /\ exch[j].err = NoErr /\ results[j].tag = "ok"

\* C3: an exchange that ended with a response whose body was read is Success
\* carrying that response's status, for every status and in every mode.
C3_StatusNeverFailure ==
    \A i \in 1..N :
        (Finished(i) /\ exch[i].err = NoErr) =>
            /\ exch[i].resp \in Statuses
            /\ exch[i].out.tag = "ok" /\ exch[i].out.status = exch[i].resp
            /\ mode \in SingleModes =>
                  pc = "done" /\ ret.tag = "ok" /\ ret.status = exch[i].resp
            /\ (mode = "batch" /\ Len(results) >= i) =>
                  results[i].tag = "ok" /\ results[i].status = exch[i].resp

\* C3 witness: a single call that returned the status 500 of the response it read.
C3_Witness ==
    /\ mode \in SingleModes /\ pc = "done"
    /\ exch[1].err = NoErr /\ exch[1].resp = 500
    /\ ret.tag = "ok"

\* the classification of section 4.3, over the whole operation
KindOfResult(r) ==
    CASE r.kind = "timeout" -> "Timeout"
      [] r.kind = "network_error" -> "NetworkError"
      [] r.kind \in {"term", "string"} -> "RequestError"
      [] OTHER -> "none"

KindOfCause(e) ==
    IF e.is_timeout THEN "Timeout"
    ELSE IF e.is_connect THEN "NetworkError"
    ELSE "RequestError"

TransportPhases == {"builder", "send", "redirect", "body"}

\* C4: a single call that fails in transport, while sending or while reading the
\* body, returns Timeout if the failure is a timeout, else NetworkError if it is a
\* connection failure, else RequestError with a detail string.
C4_SingleClassification ==
    (mode \in SingleModes /\ pc = "done" /\ exch[1].err.phase \in TransportPhases) =>
        /\ ret.tag = "error"
        /\ KindOfResult(ret) = KindOfCause(exch[1].err)
        /\ KindOfResult(ret) = "RequestError" => ret.detail # ""

\* what http_get and http_get_async return for a failure
KindByGet(e) == IF e.phase = "body" THEN http_get_body_err(e) ELSE http_get_send_err(e)
KindByGetAsync(e) ==
    IF e.phase = "body" THEN http_get_async_body_err(e) ELSE http_get_async_send_err(e)

\* C5: a failed batch item is given the kind http_get and http_get_async give the
\* same failure; an item that timed out is Timeout.
C5_SameKindInAllModes ==
    BatchReturned =>
        \A i \in 1..N :
            exch[i].err.phase \in TransportPhases =>
                /\ KindOfResult(results[i]) = KindOfResult(KindByGet(exch[i].err))
                /\ KindOfResult(results[i]) = KindOfResult(KindByGetAsync(exch[i].err))
                /\ exch[i].err.is_timeout => KindOfResult(results[i]) = "Timeout"

\* the resolved policy of section 3
ResolvedTimeout == IF options.timeout_ms = None THEN 30000 ELSE options.timeout_ms
ResolvedFollow == options.follow_redirects \in {"none", "true"}
ResolvedMax == IF options.max_redirects = None THEN 10 ELSE options.max_redirects

\* C6: the client that is built has the resolved timeout, and follows redirects up
\* to the resolved maxRedirects when followRedirects resolves to true, not at all
\* otherwise.
C6_ResolvedPolicyApplied ==
    client # NoClient =>
        /\ client.timeout = ResolvedTimeout
        /\ client.proxy = options.proxy
        /\ client.redirect = IF ResolvedFollow
                             THEN [kind |-> "limited", max |-> ResolvedMax]
                             ELSE [kind |-> "none", max |-> 0]

AtConstruction ==
    \/ pc = "entry" /\ mode \in BlockingModes
    \/ pc = "build"

\* C7: with an invalid proxy no client is ever built, no task is spawned and no
\* request is sent, and the step that builds the client ends the call with the
\* client error, in every mode.
C7_InvalidProxyFailsConstruction ==
    [][options.proxy = "invalid" =>
          /\ client' = NoClient
          /\ \A i \in 1..N : exch'[i].st = "none" /\ exch'[i].sent = 0
          /\ results' = <<>>
          /\ AtConstruction =>
                (pc' = "done" /\ ret' = [tag |-> "error", status |-> 0,
                                         kind |-> "term", detail |-> "Client error"])]_vars

\* C7 witness: http_get_batch over two urls returned the client error.
C7_Witness ==
    /\ options.proxy = "invalid"
    /\ mode = "batch" /\ N = 2
    /\ pc = "done" /\ ret.detail = "Client error"

\* C8: with followRedirects = false no exchange sends a second request, and a 3xx
\* response is handed on after exactly one request and returned as Success with
\* its status.
C8_NoRedirectFollowed ==
    options.follow_redirects = "false" =>
        \A i \in 1..N :
            /\ exch[i].sent <= 1
            /\ IsRedirect(exch[i].resp) =>
                  /\ exch[i].sent = 1
                  /\ Finished(i) =>
                        /\ exch[i].out.tag = "ok" /\ exch[i].out.status = exch[i].resp
                        /\ mode \in SingleModes =>
                              ret.tag = "ok" /\ ret.status = exch[i].resp

\* C8 witness: a single call with followRedirects = false returned a 302.
C8_Witness ==
    /\ options.follow_redirects = "false"
    /\ mode \in SingleModes /\ pc = "done"
    /\ exch[1].sent = 1
    /\ ret.tag = "ok" /\ ret.status = 302

\* C9: http_get_batch, once its tasks are spawned, returns only the full list and
\* only when every task has finished; a task that panicked or was cancelled has
\* its error in the list at its position.
C9_BatchCompletes ==
    (mode = "batch" /\ pc = "done" /\ Spawned) =>
        /\ \A i \in 1..N : Finished(i)
        /\ ret.tag = "list"
        /\ Len(results) = N
        /\ \A i \in 1..N : exch[i].err = JoinErr => results[i].detail = "Task error"

\* C9 witness: a returned batch whose first item failed in transport and whose
\* last task was aborted.
C9_Witness ==
    /\ BatchReturned
    /\ N >= 2
    /\ exch[1].err.phase = "send"
    /\ exch[N].err = JoinErr /\ results[N].detail = "Task error"

\* C10: build_client and build_async_client fail on the same options, and when
\* they succeed the clients have the same timeout, proxy and redirect policy.
C10_BuildersEquivalent ==
    LET b == build_client(options)
        a == build_async_client(options)
    IN  /\ b.ok = a.ok
        /\ b.ok =>
              /\ b.client.timeout = a.client.timeout
              /\ b.client.proxy = a.client.proxy
              /\ b.client.redirect = a.client.redirect

\* C10 witness: an async call built its client with a proxy and a redirect limit
\* of one hop.
C10_Witness ==
    /\ mode \in AsyncModes
    /\ client # NoClient
    /\ client.proxy = "valid"
    /\ client.redirect = [kind |-> "limited", max |-> 1]

====
